---- MODULE Spec2Model ----
(***************************************************************************)
(* Model of the sourcebit configuration of the starter (sourcebit.js):     *)
(* the ThemeStyle middleware (transform) and the two callbacks handed to   *)
(* sourcebit-target-next (commonProps and pages).                          *)
(*                                                                         *)
(* JavaScript objects are functions with a domain of field names, a        *)
(* JavaScript string that is taken apart (slug, urlPath, a css class) is   *)
(* a sequence of one-character strings, and a call's outcome is a record   *)
(* [status, value] with status "returned" or "threw".                      *)
(***************************************************************************)
EXTENDS Integers, Sequences, FiniteSets, TLC

\* ---------------------------------------------------------------- bounds
MaxObjects == 2
MaxRuns == 2

\* ------------------------------------------------------ values and errors
\* JavaScript's undefined: what find returns on no match, and the value of a
\* call that threw.
undefined == [__undefined |-> TRUE]

Returned(v) == [status |-> "returned", value |-> v]
Threw(e) == [status |-> "threw", value |-> [error |-> e]]

\* page.__metadata.modelName on an entry: a TypeError when the entry has no
\* __metadata, undefined when the metadata has no modelName.
HasMetadata(object) == "__metadata" \in DOMAIN object

modelNameOf(object) ==
    IF "modelName" \in DOMAIN object.__metadata
    THEN object.__metadata.modelName
    ELSE "undefined"

\* ------------------------------------------------------------- page-utils
UpperCase == <<"A", "B", "C", "D", "E", "F", "G", "H", "I", "J", "K", "L", "M",
               "N", "O", "P", "Q", "R", "S", "T", "U", "V", "W", "X", "Y", "Z">>
LowerCase == <<"a", "b", "c", "d", "e", "f", "g", "h", "i", "j", "k", "l", "m",
               "n", "o", "p", "q", "r", "s", "t", "u", "v", "w", "x", "y", "z">>
Digits == {"0", "1", "2", "3", "4", "5", "6", "7", "8", "9"}

Range(s) == {s[i] : i \in DOMAIN s}

\* One character of a class token: lower-cased, anything that is not a letter
\* or a digit replaced by "-".
sanitizeChar(c) ==
    IF c \in Range(UpperCase)
    THEN LowerCase[CHOOSE i \in DOMAIN UpperCase : UpperCase[i] = c]
    ELSE IF c \in Range(LowerCase) \cup Digits THEN c ELSE "-"

sanitize(segment) == [i \in DOMAIN segment |-> sanitizeChar(segment[i])]

\* urlPath.split('/'): the segments between the slashes, empty ones included.
RECURSIVE splitOnSlash(_, _, _)
splitOnSlash(s, i, current) ==
    IF i > Len(s) THEN <<current>>
    ELSE IF s[i] = "/" THEN <<current>> \o splitOnSlash(s, i + 1, <<>>)
    ELSE splitOnSlash(s, i + 1, Append(current, s[i]))

homeClass == <<"h", "o", "m", "e">>

cssClassesFromUrlPath(urlPath) ==
    LET segments == SelectSeq(splitOnSlash(urlPath, 1, <<>>), LAMBDA seg : seg # <<>>)
    IN  IF segments = <<>> THEN <<homeClass>>
        ELSE [k \in DOMAIN segments |-> sanitize(segments[k])]

\* The page's url: its slug, rooted at "/".
getPageUrl(page) ==
    IF page.slug # <<>> /\ page.slug[1] = "/" THEN page.slug ELSE <<"/">> \o page.slug

\* -------------------------------------------------- entries of the content
\* The entries the content source can deliver, and two it should not: one
\* without a metadata record and one whose metadata has no modelName.
configC1 == [__metadata |-> [modelName |-> "Config", id |-> "c1"]]
configC2 == [__metadata |-> [modelName |-> "Config", id |-> "c2"], title |-> "second"]
pageP1 == [__metadata |-> [modelName |-> "PageLayout", id |-> "p1"],
           slug |-> <<"/", "a", "b", "o", "u", "t">>]
postP2 == [__metadata |-> [modelName |-> "PostLayout", id |-> "p2",
                           urlPath |-> <<"/", "o", "l", "d">>,
                           pageCssClasses |-> << <<"o", "l", "d">> >>],
           slug |-> <<"/", "b", "l", "o", "g", "/", "m", "y", "-", "p", "o", "s", "t">>,
           title |-> "my post"]
feedF1 == [__metadata |-> [modelName |-> "PostFeedLayout", id |-> "f1"],
           slug |-> <<"/">>]
pageP3 == [__metadata |-> [modelName |-> "PageLayout", id |-> "p3"],
           slug |-> <<"D", "o", "c", "s", "_", "v", "2", "/">>]
themeT1 == [__metadata |-> [modelName |-> "ThemeStyle", id |-> "t1"], mode |-> "light"]
themeT2 == [__metadata |-> [modelName |-> "ThemeStyle", id |-> "t2"], mode |-> "dark"]
noMetadata == [id |-> "x1"]
noModelName == [__metadata |-> [id |-> "n1"]]

Entries == {configC1, configC2, pageP1, postP2, feedF1, pageP3, themeT1, themeT2,
            noMetadata, noModelName}

Collections == UNION {[1..n -> Entries] : n \in 0..MaxObjects}

\* ------------------------------------------------------------ Array.find
\* objects.find(object => object.__metadata.modelName === name), from index
\* i on: the index of the first match, or where the callback threw.
RECURSIVE findModel(_, _, _)
findModel(objects, i, name) ==
    IF i > Len(objects) THEN [status |-> "notfound", index |-> 0, examined |-> i - 1]
    ELSE IF ~HasMetadata(objects[i]) THEN [status |-> "threw", index |-> i, examined |-> i]
    ELSE IF modelNameOf(objects[i]) = name THEN [status |-> "found", index |-> i, examined |-> i]
    ELSE findModel(objects, i + 1, name)

\* ----------------------------------------------------------- commonProps
\* commonProps with the last Config entry taken instead of the first.
commonPropsLast(objects) ==
    LET configs == {i \in DOMAIN objects :
                       HasMetadata(objects[i]) /\ modelNameOf(objects[i]) = "Config"}
    IN  [outcome |->
             IF \E i \in DOMAIN objects : ~HasMetadata(objects[i]) THEN Threw("TypeError")
             ELSE Returned([site |-> IF configs = {} THEN undefined
                                     ELSE objects[CHOOSE i \in configs :
                                                      \A j \in configs : j <= i]]),
         objects |-> objects]

\* The outcome of commonProps(objects) and the objects as the call leaves them.
commonProps(objects) ==
    LET hit == findModel(objects, 1, "Config")
    IN  [outcome |->
             IF hit.status = "threw" THEN Threw("TypeError")
             ELSE Returned([site |-> IF hit.status = "found"
                                     THEN objects[hit.index] ELSE undefined]),
         objects |-> objects]

\* ----------------------------------------------------------------- pages
\* The allow-list with PostLayout left out.
pageModelsWithoutPosts == {"PageLayout", "PostFeedLayout"}

pageModels == {"PageLayout", "PostFeedLayout", "PostLayout"}

\* The map callback with the entry's metadata spread last, so that it wins
\* over the computed urlPath and pageCssClasses.
pageRecordSpreadLast(page) ==
    LET metadata == page.__metadata
        urlPath == getPageUrl(page)
    IN  [k \in DOMAIN page |->
             IF k = "__metadata"
             THEN [m \in DOMAIN metadata \cup {"urlPath", "pageCssClasses"} |->
                       IF m \in DOMAIN metadata THEN metadata[m]
                       ELSE IF m = "urlPath" THEN urlPath
                       ELSE cssClassesFromUrlPath(urlPath)]
             ELSE page[k]]

\* The map callback with the classes computed from the urlPath the entry's
\* metadata already had, when it had one.
pageRecordStaleClasses(page) ==
    LET metadata == page.__metadata
        urlPath == getPageUrl(page)
        classesOf == IF "urlPath" \in DOMAIN metadata THEN metadata.urlPath ELSE urlPath
    IN  [k \in DOMAIN page |->
             IF k = "__metadata"
             THEN [m \in DOMAIN metadata \cup {"urlPath", "pageCssClasses"} |->
                       IF m = "urlPath" THEN urlPath
                       ELSE IF m = "pageCssClasses" THEN cssClassesFromUrlPath(classesOf)
                       ELSE metadata[m]]
             ELSE page[k]]

\* The map callback with urlPath and pageCssClasses set on the page record
\* itself, next to its metadata.
pageRecordFlat(page) ==
    LET urlPath == getPageUrl(page)
    IN  [k \in DOMAIN page \cup {"urlPath", "pageCssClasses"} |->
             IF k = "urlPath" THEN urlPath
             ELSE IF k = "pageCssClasses" THEN cssClassesFromUrlPath(urlPath)
             ELSE page[k]]

\* The callback of pageObjects.map: a new record with the entry's metadata
\* spread first and urlPath and pageCssClasses set after it, followed by the
\* entry's other fields.
pageRecord(page) ==
    LET metadata == page.__metadata
        restProps == [k \in DOMAIN page \ {"__metadata"} |-> page[k]]
        urlPath == getPageUrl(page)
        newMetadata ==
            [k \in DOMAIN metadata \cup {"urlPath", "pageCssClasses"} |->
                 IF k = "urlPath" THEN urlPath
                 ELSE IF k = "pageCssClasses" THEN cssClassesFromUrlPath(urlPath)
                 ELSE metadata[k]]
    IN  [k \in {"__metadata"} \cup DOMAIN restProps |->
             IF k = "__metadata" THEN newMetadata ELSE restProps[k]]

\* pages with the page list returned in reverse.
pagesReversed(objects) ==
    IF \E i \in DOMAIN objects : ~HasMetadata(objects[i])
    THEN [outcome |-> Threw("TypeError"), objects |-> objects]
    ELSE LET pageObjects == SelectSeq(objects, LAMBDA page : modelNameOf(page) \in pageModels)
             n == Len(pageObjects)
         IN  [outcome |-> Returned([k \in DOMAIN pageObjects |->
                                        pageRecord(pageObjects[n + 1 - k])]),
              objects |-> objects]

\* pages with the derived fields written into the entries themselves, the
\* entries being returned as the pages.
pagesInPlace(objects) ==
    IF \E i \in DOMAIN objects : ~HasMetadata(objects[i])
    THEN [outcome |-> Threw("TypeError"), objects |-> objects]
    ELSE LET written == [i \in DOMAIN objects |->
                             IF modelNameOf(objects[i]) \in pageModels
                             THEN pageRecord(objects[i]) ELSE objects[i]]
         IN  [outcome |-> Returned(SelectSeq(written,
                              LAMBDA page : modelNameOf(page) \in pageModels)),
              objects |-> written]

\* The outcome of pages(objects) and the objects as the call leaves them. The
\* filter reads __metadata.modelName of every entry before any page is built.
pages(objects) ==
    IF \E i \in DOMAIN objects : ~HasMetadata(objects[i])
    THEN [outcome |-> Threw("TypeError"), objects |-> objects]
    ELSE LET pageObjects == SelectSeq(objects, LAMBDA page : modelNameOf(page) \in pageModels)
         IN  [outcome |-> Returned([k \in DOMAIN pageObjects |-> pageRecord(pageObjects[k])]),
              objects |-> objects]

\* ------------------------------------------------------------- transform
styleDir == "content/data"
styleFile == "content/data/style.json"

\* JSON.stringify(object, null, 4)
JSONstringify(object) == [json |-> object, indent |-> 4]

\* transform with forEach in the place of find: every entry is visited and
\* every ThemeStyle entry is written, the last one staying on disk.
RECURSIVE forEachObject(_, _, _, _, _)
forEachObject(data, i, fs, calls, fault) ==
    LET exists == [call |-> "existsSync", path |-> styleDir, result |-> fs.dirExists]
        mkdir == [call |-> "mkdirSync", path |-> styleDir, ok |-> ~fault.mkdir]
        write == [call |-> "writeFileSync", path |-> styleFile,
                  data |-> JSONstringify(data.objects[i]), ok |-> ~fault.write]
        calls0 == calls \o (IF fs.dirExists THEN <<exists>> ELSE <<exists, mkdir>>)
    IN  IF i > Len(data.objects)
        THEN [outcome |-> Returned(data), fs |-> fs, calls |-> calls,
              examined |-> i - 1, data |-> data]
        ELSE IF ~HasMetadata(data.objects[i])
        THEN [outcome |-> Threw("TypeError"), fs |-> fs, calls |-> calls,
              examined |-> i, data |-> data]
        ELSE IF modelNameOf(data.objects[i]) # "ThemeStyle"
        THEN forEachObject(data, i + 1, fs, calls, fault)
        ELSE IF ~fs.dirExists /\ fault.mkdir
        THEN [outcome |-> Threw("mkdirSync"), fs |-> fs, calls |-> calls0,
              examined |-> i, data |-> data]
        ELSE IF fault.write
        THEN [outcome |-> Threw("writeFileSync"),
              fs |-> [fs EXCEPT !.dirExists = TRUE],
              calls |-> Append(calls0, write), examined |-> i, data |-> data]
        ELSE forEachObject(data, i + 1, [dirExists |-> TRUE, style |-> write.data],
                           Append(calls0, write), fault)

transformForEach(data, fs, fault) == forEachObject(data, 1, fs, <<>>, fault)

\* transform({ data }) on the file system fs, where fault says which of
\* mkdirSync and writeFileSync fail in this call. calls lists the fs calls
\* made, in order, each with its result; examined is the number of entries
\* the find callback was called on; data is the data as the call leaves it.
transform(data, fs, fault) ==
    LET hit == findModel(data.objects, 1, "ThemeStyle")
        exists == [call |-> "existsSync", path |-> styleDir, result |-> fs.dirExists]
        mkdir == [call |-> "mkdirSync", path |-> styleDir, ok |-> ~fault.mkdir]
        write == [call |-> "writeFileSync", path |-> styleFile,
                  data |-> JSONstringify(data.objects[hit.index]), ok |-> ~fault.write]
        calls0 == IF fs.dirExists THEN <<exists>> ELSE <<exists, mkdir>>
    IN  IF hit.status = "threw"
        THEN [outcome |-> Threw("TypeError"), fs |-> fs, calls |-> <<>>,
              examined |-> hit.examined, data |-> data]
        ELSE IF hit.status = "notfound"
        THEN [outcome |-> Returned(data), fs |-> fs, calls |-> <<>>,
              examined |-> hit.examined, data |-> data]
        ELSE IF ~fs.dirExists /\ fault.mkdir
        THEN [outcome |-> Threw("mkdirSync"), fs |-> fs, calls |-> calls0,
              examined |-> hit.examined, data |-> data]
        ELSE IF fault.write
        THEN [outcome |-> Threw("writeFileSync"),
              fs |-> [fs EXCEPT !.dirExists = TRUE],
              calls |-> Append(calls0, write),
              examined |-> hit.examined, data |-> data]
        ELSE [outcome |-> Returned(data),
              fs |-> [dirExists |-> TRUE, style |-> write.data],
              calls |-> Append(calls0, write),
              examined |-> hit.examined, data |-> data]

\* ------------------------------------------------------------------ state
VARIABLES
    input,          \* the entries as the content source delivered them
    objects,        \* data.objects, the array the plugins are handed
    fs,             \* content/data and content/data/style.json on disk
    transformed,    \* the transform call: outcome, fs calls made, entries examined
    props,          \* outcomes of the commonProps calls so far, oldest first
    pageRuns        \* outcomes of the pages calls so far, oldest first

vars == <<input, objects, fs, transformed, props, pageRuns>>

notRun == [outcome |-> [status |-> "none", value |-> undefined],
           calls |-> <<>>, examined |-> 0]

Init ==
    /\ input \in Collections
    /\ objects = input
    /\ fs \in {[dirExists |-> FALSE, style |-> undefined],
               [dirExists |-> TRUE, style |-> undefined]}
    /\ transformed = notRun
    /\ props = <<>>
    /\ pageRuns = <<>>

\* The middleware runs once per build, before the target plugin.
Transform ==
    /\ transformed.outcome.status = "none"
    /\ props = <<>> /\ pageRuns = <<>>
    /\ \E fault \in [mkdir : BOOLEAN, write : BOOLEAN] :
         LET r == transform([objects |-> objects], fs, fault)
         IN  /\ fs' = r.fs
             /\ objects' = r.data.objects
             /\ transformed' = [outcome |-> r.outcome, calls |-> r.calls,
                                examined |-> r.examined]
    /\ UNCHANGED <<input, props, pageRuns>>

\* sourcebit-target-next calls commonProps(objects).
CommonProps ==
    /\ Len(props) < MaxRuns
    /\ LET r == commonProps(objects)
       IN  /\ props' = Append(props, r.outcome)
           /\ objects' = r.objects
    /\ UNCHANGED <<input, fs, transformed, pageRuns>>

\* sourcebit-target-next calls pages(objects).
Pages ==
    /\ Len(pageRuns) < MaxRuns
    /\ LET r == pages(objects)
       IN  /\ pageRuns' = Append(pageRuns, r.outcome)
           /\ objects' = r.objects
    /\ UNCHANGED <<input, fs, transformed, props>>

Next == Transform \/ CommonProps \/ Pages

Spec == Init /\ [][Next]_vars

\* ----------------------------------------------- vocabulary of the claims
Tagged(entry, name) ==
    /\ HasMetadata(entry)
    /\ "modelName" \in DOMAIN entry.__metadata
    /\ entry.__metadata.modelName = name

IsPageEntry(entry) ==
    \E name \in {"PageLayout", "PostFeedLayout", "PostLayout"} : Tagged(entry, name)

\* Every delivered entry carries a metadata record, as the data model says.
AllHaveMetadata == \A i \in DOMAIN input : HasMetadata(input[i])

PageIdx == {i \in DOMAIN input : IsPageEntry(input[i])}

\* The position, among the page entries of the input, of the one at index i.
Rank(i) == Cardinality({j \in PageIdx : j <= i})

ReturnedPageRuns == {k \in DOMAIN pageRuns : pageRuns[k].status = "returned"}

DerivedFrom(page, entry) ==
    /\ page.__metadata.id = entry.__metadata.id
    /\ page.slug = entry.slug

AboutPath == <<"/", "a", "b", "o", "u", "t">>
AboutClass == <<"a", "b", "o", "u", "t">>

\* ------------------------------------------------------------------- C1
\* C1: whenever every entry carries metadata pages returns, and a returned
\* page list is no longer than the input, holds only PageLayout,
\* PostFeedLayout and PostLayout records, and holds exactly one page for
\* each input entry of these models (as many pages derived from an entry as
\* the input has occurrences of it); no Config or ThemeStyle page appears.
C1_PagesAreTheAllowListed ==
    \A k \in DOMAIN pageRuns :
        /\ AllHaveMetadata => pageRuns[k].status = "returned"
        /\ pageRuns[k].status = "returned" =>
             LET out == pageRuns[k].value
             IN  /\ Len(out) <= Len(input)
                 /\ \A j \in DOMAIN out :
                        out[j].__metadata.modelName
                            \in {"PageLayout", "PostFeedLayout", "PostLayout"}
                 /\ Len(out) = Cardinality(PageIdx)
                 /\ \A i \in PageIdx :
                        Cardinality({j \in DOMAIN out : DerivedFrom(out[j], input[i])})
                            = Cardinality({i2 \in PageIdx : DerivedFrom(input[i2], input[i])})

C1_Witness ==
    /\ input = <<configC1, postP2>>
    /\ pageRuns # <<>>
    /\ pageRuns[1].status = "returned"
    /\ Len(pageRuns[1].value) = 1

\* ------------------------------------------------------------------- C2
\* C2: in a returned page list the pages stand in the order of their
\* entries: the page of the input's n-th page entry is the n-th page, so the
\* page of an earlier page entry precedes the page of a later one.
C2_PagesKeepInputOrder ==
    \A k \in ReturnedPageRuns :
        \A a \in PageIdx :
            /\ Rank(a) \in DOMAIN pageRuns[k].value
            /\ DerivedFrom(pageRuns[k].value[Rank(a)], input[a])
            /\ \A b \in PageIdx : a < b => Rank(a) < Rank(b)

C2_Witness ==
    /\ input = <<postP2, pageP1>>
    /\ pageRuns # <<>>
    /\ pageRuns[1].status = "returned"
    /\ Len(pageRuns[1].value) = 2
    /\ pageRuns[1].value[1].__metadata.id = "p2"

\* ------------------------------------------------------------------- C3
\* C3: commonProps returns whenever every entry carries metadata (the empty
\* collection and a collection without a Config entry included), and what it
\* returns as site is the first entry tagged Config in input order, or
\* undefined when no entry is tagged Config.
ConfigIdx == {i \in DOMAIN input : Tagged(input[i], "Config")}

C3_SiteIsFirstConfig ==
    \A k \in DOMAIN props :
        /\ AllHaveMetadata => props[k].status = "returned"
        /\ props[k].status = "returned" =>
             /\ DOMAIN props[k].value = {"site"}
             /\ IF ConfigIdx = {}
                THEN props[k].value.site = undefined
                ELSE \E i \in ConfigIdx :
                        /\ \A j \in ConfigIdx : i <= j
                        /\ props[k].value.site = input[i]

C3_Witness ==
    /\ input = <<configC2, configC1>>
    /\ props # <<>>
    /\ props[1] = Returned([site |-> configC2])

\* ------------------------------------------------------------------- C4
\* C4: an entry without its metadata record never makes a step fail: pages
\* and commonProps return, and the transform raises nothing but a failure of
\* the file system.
C4_MalformedEntriesAreSkipped ==
    /\ \A k \in DOMAIN pageRuns : pageRuns[k].status = "returned"
    /\ \A k \in DOMAIN props : props[k].status = "returned"
    /\ transformed.outcome.status = "threw"
           => transformed.outcome.value.error # "TypeError"

\* ------------------------------------------------------------------- C5
\* C5: a second run of commonProps and of pages gives the outcome of the
\* first, and no run changes the collection or its entries: the objects are
\* at all times the input as delivered.
SameOutcome(a, b) == a.status = b.status /\ a.value = b.value

C5_RunsAgree ==
    /\ objects = input
    /\ \A k \in DOMAIN props : SameOutcome(props[k], props[1])
    /\ \A k \in DOMAIN pageRuns : SameOutcome(pageRuns[k], pageRuns[1])

C5_Witness ==
    /\ input = <<feedF1, configC1>>
    /\ Len(props) = 2
    /\ Len(pageRuns) = 2
    /\ pageRuns[2].status = "returned"
    /\ Len(pageRuns[2].value) = 1

\* ------------------------------------------------------------------- C9
\* C9: the n-th returned page has the fields of the n-th page entry, each
\* field but __metadata with the entry's value; its metadata has the fields
\* of the entry's metadata and urlPath and pageCssClasses, every other field
\* with the entry's value and these two with the values computed from the
\* entry, whatever the entry's metadata held under these names; and the
\* entries stay as delivered.
C9_PageFrame ==
    /\ objects = input
    /\ \A k \in ReturnedPageRuns : \A i \in PageIdx :
         LET page == pageRuns[k].value[Rank(i)]
             entry == input[i]
         IN  /\ DOMAIN page = DOMAIN entry
             /\ \A f \in DOMAIN entry \ {"__metadata"} : page[f] = entry[f]
             /\ DOMAIN page.__metadata
                    = DOMAIN entry.__metadata \cup {"urlPath", "pageCssClasses"}
             /\ \A m \in DOMAIN entry.__metadata \ {"urlPath", "pageCssClasses"} :
                    page.__metadata[m] = entry.__metadata[m]
             /\ page.__metadata.urlPath = getPageUrl(entry)
             /\ page.__metadata.pageCssClasses
                    = cssClassesFromUrlPath(getPageUrl(entry))

\* A page was built from an entry whose metadata already had a urlPath.
C9_Witness ==
    /\ input = <<themeT1, postP2>>
    /\ pageRuns # <<>>
    /\ pageRuns[1].status = "returned"
    /\ pageRuns[1].value[1].title = "my post"
    /\ pageRuns[1].value[1].__metadata.urlPath # postP2.__metadata.urlPath

\* ------------------------------------------------------------------- C6
\* The indices at which a segment of the path u starts, and where the
\* segment starting at index s ends.
SegmentStarts(u) == {i \in DOMAIN u : u[i] # "/" /\ (i = 1 \/ u[i - 1] = "/")}

SegmentEnd(u, s) ==
    CHOOSE e \in s..Len(u) :
        /\ \A x \in s..e : u[x] # "/"
        /\ e = Len(u) \/ u[e + 1] = "/"

\* classes is the class list of the path u: one token per non-empty
\* segment, in order, of the segment's length, with lower-case letters and
\* digits kept, upper-case letters lowered and any other character turned
\* into "-"; the single token "home" when u has no non-empty segment.
ClassesOfPath(classes, u) ==
    /\ classes # <<>>
    /\ SegmentStarts(u) = {} => classes = << <<"h", "o", "m", "e">> >>
    /\ SegmentStarts(u) # {} =>
         /\ Len(classes) = Cardinality(SegmentStarts(u))
         /\ \A s \in SegmentStarts(u) :
              LET token == classes[Cardinality({t \in SegmentStarts(u) : t <= s})]
              IN  /\ Len(token) = SegmentEnd(u, s) - s + 1
                  /\ \A x \in DOMAIN token :
                       LET c == u[s + x - 1]
                       IN  /\ c \in Range(LowerCase) \cup Digits => token[x] = c
                           /\ c \in Range(UpperCase) =>
                                \E n \in DOMAIN UpperCase :
                                    UpperCase[n] = c /\ token[x] = LowerCase[n]
                           /\ c \notin Range(LowerCase) \cup Range(UpperCase) \cup Digits
                                => token[x] = "-"

\* C6: the pageCssClasses of every returned page is the class list of that
\* page's own urlPath, so it is never empty; the path "/" has the classes
\* ["home"] and "/blog/my-post" has ["blog", "my-post"].
C6_ClassesComeFromUrlPath ==
    \A k \in ReturnedPageRuns : \A j \in DOMAIN pageRuns[k].value :
        LET metadata == pageRuns[k].value[j].__metadata
        IN  /\ ClassesOfPath(metadata.pageCssClasses, metadata.urlPath)
            /\ metadata.urlPath = <<"/">>
                   => metadata.pageCssClasses = << <<"h", "o", "m", "e">> >>
            /\ metadata.urlPath
                   = <<"/", "b", "l", "o", "g", "/", "m", "y", "-", "p", "o", "s", "t">>
                   => metadata.pageCssClasses
                          = << <<"b", "l", "o", "g">>, <<"m", "y", "-", "p", "o", "s", "t">> >>

C6_Witness ==
    /\ input = <<feedF1, pageP3>>
    /\ pageRuns # <<>>
    /\ pageRuns[1].status = "returned"
    /\ pageRuns[1].value[1].__metadata.pageCssClasses = <<homeClass>>
    /\ pageRuns[1].value[2].__metadata.pageCssClasses
           = << <<"d", "o", "c", "s", "-", "v", "2">> >>

\* ------------------------------------------------------------------- C7
\* The part of C7 that transform itself decides: a write goes to
\* content/data/style.json, after existsSync and, when the directory was
\* missing, a successful mkdirSync; mkdirSync is called only when existsSync
\* said no; and a failed mkdirSync or writeFileSync makes transform throw.
IsCall(c, name) == transformed.calls[c].call = name

TransformFailureSurfaced ==
    /\ \A c \in DOMAIN transformed.calls :
         /\ IsCall(c, "writeFileSync") =>
              /\ transformed.calls[c].path = "content/data/style.json"
              /\ IsCall(1, "existsSync")
              /\ \/ transformed.calls[1].result /\ c = 2
                 \/ /\ ~transformed.calls[1].result /\ c = 3
                    /\ IsCall(2, "mkdirSync") /\ transformed.calls[2].ok
         /\ IsCall(c, "mkdirSync") =>
              /\ c = 2 /\ IsCall(1, "existsSync") /\ ~transformed.calls[1].result
              /\ transformed.calls[c].path = "content/data"
         /\ (~IsCall(c, "existsSync") /\ ~transformed.calls[c].ok) =>
              /\ transformed.outcome.status = "threw"
              /\ c = Len(transformed.calls)
    /\ transformed.outcome.status = "returned" =>
         \A c \in DOMAIN transformed.calls :
             IsCall(c, "existsSync") \/ transformed.calls[c].ok

TransformFailureSurfaced_Witness ==
    /\ transformed.outcome = Threw("writeFileSync")
    /\ Len(transformed.calls) = 3
    /\ pageRuns # <<>>

\* ------------------------------------------------------------------- C8
\* C8 as claimed: for the input [c1, p1] the site is c1 and the one page is
\* p1's, with urlPath "/about" and pageCssClasses ["about"] as fields of the
\* page record.
C8_DerivedFieldsOnPageRecord ==
    input = <<configC1, pageP1>> =>
        /\ \A k \in DOMAIN props : props[k] = Returned([site |-> configC1])
        /\ \A k \in DOMAIN pageRuns :
             /\ pageRuns[k].status = "returned"
             /\ Len(pageRuns[k].value) = 1
             /\ LET page == pageRuns[k].value[1]
                IN  /\ page.__metadata.id = "p1"
                    /\ "urlPath" \in DOMAIN page
                    /\ page.urlPath = AboutPath
                    /\ "pageCssClasses" \in DOMAIN page
                    /\ page.pageCssClasses = <<AboutClass>>

\* C8, amended: for the input [c1, p1] the site is c1 and the one page is
\* p1's, with urlPath "/about" and pageCssClasses ["about"] as fields of the
\* page's __metadata record, next to modelName and id, and with p1's slug.
C8_EndToEnd ==
    input = <<configC1, pageP1>> =>
        /\ \A k \in DOMAIN props : props[k] = Returned([site |-> configC1])
        /\ \A k \in DOMAIN pageRuns :
             /\ pageRuns[k].status = "returned"
             /\ pageRuns[k].value =
                    << [__metadata |-> [modelName |-> "PageLayout", id |-> "p1",
                                        urlPath |-> AboutPath,
                                        pageCssClasses |-> <<AboutClass>>],
                        slug |-> AboutPath] >>

C8_Witness ==
    /\ input = <<configC1, pageP1>>
    /\ props # <<>>
    /\ pageRuns # <<>>
    /\ pageRuns[1].value[1].__metadata.pageCssClasses = <<AboutClass>>

\* ------------------------------------------------------------------ C10
ThemeIdx == {i \in DOMAIN input : Tagged(input[i], "ThemeStyle")}

CallsOf(name) == {c \in DOMAIN transformed.calls : IsCall(c, name)}

\* C10: one call of transform writes style.json at most once and creates
\* the directory at most once; what it writes is the first ThemeStyle entry
\* of the input, and find has then looked at no entry after it; with no
\* ThemeStyle entry it makes no fs call at all and the file stays unwritten;
\* and when it returns, it returns the data it was given, the objects being
\* the input in content and order.
C10_TransformWritesFirstThemeOnce ==
    transformed.outcome.status # "none" =>
        /\ Cardinality(CallsOf("writeFileSync")) <= 1
        /\ Cardinality(CallsOf("mkdirSync")) <= 1
        /\ \A c \in CallsOf("writeFileSync") :
             \E i \in ThemeIdx :
                 /\ \A j \in ThemeIdx : i <= j
                 /\ transformed.calls[c].data = [json |-> input[i], indent |-> 4]
                 /\ transformed.examined = i
        /\ fs.style # undefined =>
             \E c \in CallsOf("writeFileSync") :
                 transformed.calls[c].ok /\ fs.style = transformed.calls[c].data
        /\ ThemeIdx = {} => transformed.calls = <<>> /\ fs.style = undefined
        /\ transformed.outcome.status = "returned" =>
             /\ transformed.outcome.value = [objects |-> input]
             /\ objects = input

\* A second ThemeStyle entry and an entry without metadata after the first.
C10_Witness ==
    /\ input \in {<<themeT2, themeT1>>, <<themeT2, noMetadata>>}
    /\ transformed.outcome.status = "returned"
    /\ fs.style = [json |-> themeT2, indent |-> 4]
    /\ transformed.examined = 1

====
